---- MODULE Spec2Model ----
(***************************************************************************)
(* A model of src/src/tools/tradetools_intro.py: the two request handlers  *)
(* trade_univariate and trade_bivariate, the temporary directory they      *)
(* allocate their output file in, and the external Rscript process they    *)
(* run.                                                                    *)
(*                                                                         *)
(* Text is modelled as a sequence of symbols.  Text the handlers transform *)
(* (the temporary path, the text of a boolean) is spelled character by     *)
(* character; text they only pass through (flag names, caller-supplied     *)
(* paths, column names) is one opaque symbol.                              *)
(***************************************************************************)
EXTENDS Integers, Sequences, FiniteSets, TLC

\* Number of handler invocations that may be in flight or finished.
NumRequests == 2
\* Number of distinct random names tempfile can draw (tmpXXXXXXXX).
NumNames == 2

Reqs == 1..NumRequests

----------------------------------------------------------------------------
\* Python values: the arguments a caller can pass.

PyNone == [t |-> "NoneType", s |-> <<>>, n |-> 0]
PyStr(chars) == [t |-> "str", s |-> chars, n |-> 0]
PyBool(b) == [t |-> "bool", s |-> <<>>, n |-> IF b THEN 1 ELSE 0]
PyInt(i) == [t |-> "int", s |-> <<>>, n |-> i]
\* A float with one decimal digit, n tenths (0.0 is 0, 1.0 is 10).
PyFloat(tenths) == [t |-> "float", s |-> <<>>, n |-> tenths]

\* Faulty variant of Truthy: the test `is not None`.
TruthyIsNotNone(v) == v.t # "NoneType"

\* Python truthiness, as used by `if annot_table_csv:` and `if genes_exclude:`.
Truthy(v) ==
    CASE v.t = "NoneType" -> FALSE
      [] v.t = "str" -> Len(v.s) > 0
      [] OTHER -> v.n # 0

Digit(d) ==
    CASE d = 0 -> "0" [] d = 1 -> "1" [] d = 2 -> "2" [] d = 3 -> "3"
      [] d = 4 -> "4" [] d = 5 -> "5" [] d = 6 -> "6" [] d = 7 -> "7"
      [] d = 8 -> "8" [] OTHER -> "9"

RECURSIVE Digits(_)
Digits(i) == IF i < 10 THEN <<Digit(i)>> ELSE Digits(i \div 10) \o <<Digit(i % 10)>>

\* Python str(): bool prints as True/False, int as its digits, None as None.
str(v) ==
    CASE v.t = "str" -> v.s
      [] v.t = "bool" -> IF v.n = 1 THEN <<"T", "r", "u", "e">>
                                    ELSE <<"F", "a", "l", "s", "e">>
      [] v.t = "int" -> Digits(v.n)
      [] v.t = "float" -> Digits(v.n \div 10) \o <<".">> \o Digits(v.n % 10)
      [] OTHER -> <<"N", "o", "n", "e">>

UpperChar(c) ==
    CASE c = "a" -> "A" [] c = "e" -> "E" [] c = "l" -> "L" [] c = "n" -> "N"
      [] c = "o" -> "O" [] c = "r" -> "R" [] c = "s" -> "S" [] c = "u" -> "U"
      [] OTHER -> c

\* Python str.upper().
upper(s) == [i \in 1..Len(s) |-> UpperChar(s[i])]

\* Python str.replace(old, new): every non-overlapping occurrence, left to right.
RECURSIVE replace(_, _, _)
replace(s, old, new) ==
    IF Len(s) < Len(old) THEN s
    ELSE IF SubSeq(s, 1, Len(old)) = old
         THEN new \o replace(SubSeq(s, Len(old) + 1, Len(s)), old, new)
         ELSE <<s[1]>> \o replace(Tail(s), old, new)

DotCsv == <<".", "c", "s", "v">>
DotRds == <<".", "r", "d", "s">>

TRUE_token == <<"T", "R", "U", "E">>
FALSE_token == <<"F", "A", "L", "S", "E">>

----------------------------------------------------------------------------
\* The request: the named parameters of one call.

OptionalStrings(sym) == {PyNone, PyStr(<<>>), PyStr(<<sym>>)}
\* What a Python caller can hand to a parameter annotated bool.
BoolLikes == {PyBool(TRUE), PyBool(FALSE), PyInt(1), PyInt(0)}

Kinds == {"univariate", "bivariate"}

UnivariateArgs ==
    [results_csv : {PyStr(<<"results.csv">>)},
     annot_table_csv : OptionalStrings("annot.csv"),
     log2FoldChange_col : {PyStr(<<"log2FoldChange">>)},
     lfcSE_col : {PyStr(<<"lfcSE">>)},
     pvalue_col : {PyStr(<<"pvalue">>)},
     model_significant : BoolLikes,
     genes_exclude : OptionalStrings("ENSG1,ENSG2"),
     n_sample : {PyInt(0)},
     seed : {PyInt(42)}]

BivariateArgs ==
    [results1_csv : {PyStr(<<"results1.csv">>)},
     results2_csv : {PyStr(<<"results2.csv">>)},
     log2FoldChange_col : {PyStr(<<"log2FoldChange">>)},
     lfcSE_col : {PyStr(<<"lfcSE">>)},
     pvalue_col : {PyStr(<<"pvalue">>)},
     genes_exclude : OptionalStrings("ENSG1,ENSG2"),
     estimate_sampling_covariance : BoolLikes,
     covariance_matrix_set : {PyStr(<<"combined">>)},
     component_varexplained_threshold : {PyFloat(0)},
     weight_nocorr : {PyFloat(10)},
     n_sample : {PyInt(0)},
     seed : {PyInt(42)}]

ArgSpace(k) == IF k = "univariate" THEN UnivariateArgs ELSE BivariateArgs

\* The parameters of a call that supplies only the required ones: the defaults
\* of the two signatures.
DefaultArgs(k) ==
    IF k = "univariate"
    THEN CHOOSE a \in UnivariateArgs :
            /\ a.annot_table_csv = PyNone
            /\ a.model_significant = PyBool(TRUE)
            /\ a.genes_exclude = PyNone
    ELSE CHOOSE a \in BivariateArgs :
            /\ a.genes_exclude = PyNone
            /\ a.estimate_sampling_covariance = PyBool(FALSE)

\* The flag each handler puts before its parameter annotated bool.
BoolFlag(k) ==
    IF k = "univariate" THEN <<"--model_significant">>
    ELSE <<"--estimate_sampling_covariance">>

\* cmd.extend([flag, value]) under `if value:`.
ExtendIf(flag, v) == IF Truthy(v) THEN <<<<flag>>, str(v)>> ELSE <<>>

\* The cmd list of trade_univariate, after both `if` statements.
UnivariateCmd(a, output_csv) ==
    << <<"Rscript">>, <<"trade_univariate.R">>,
       <<"--results">>, str(a.results_csv),
       <<"--log2FoldChange">>, str(a.log2FoldChange_col),
       <<"--lfcSE">>, str(a.lfcSE_col),
       <<"--pvalue">>, str(a.pvalue_col),
       <<"--model_significant">>, upper(str(a.model_significant)),
       <<"--n_sample">>, str(a.n_sample),
       <<"--seed">>, str(a.seed),
       <<"--output">>, output_csv >>
    \o ExtendIf("--annot_table", a.annot_table_csv)
    \o ExtendIf("--genes_exclude", a.genes_exclude)

\* The cmd list of trade_bivariate, after its `if` statement.
BivariateCmd(a, output_csv) ==
    << <<"Rscript">>, <<"trade_bivariate.R">>,
       <<"--results1">>, str(a.results1_csv),
       <<"--results2">>, str(a.results2_csv),
       <<"--log2FoldChange">>, str(a.log2FoldChange_col),
       <<"--lfcSE">>, str(a.lfcSE_col),
       <<"--pvalue">>, str(a.pvalue_col),
       <<"--estimate_sampling_covariance">>, upper(str(a.estimate_sampling_covariance)),
       <<"--covariance_matrix_set">>, str(a.covariance_matrix_set),
       <<"--component_varexplained_threshold">>, str(a.component_varexplained_threshold),
       <<"--weight_nocorr">>, str(a.weight_nocorr),
       <<"--n_sample">>, str(a.n_sample),
       <<"--seed">>, str(a.seed),
       <<"--output">>, output_csv >>
    \o ExtendIf("--genes_exclude", a.genes_exclude)

\* Reading an argument list the way the flag/value grammar does.
FlagPositions(c, flag) == {i \in 1..Len(c) : c[i] = flag}
HasFlag(c, flag) == FlagPositions(c, flag) # {}
\* The values that follow `flag` (the list's end counts as an empty value).
ValuesAfter(c, flag) ==
    {IF i < Len(c) THEN c[i + 1] ELSE <<>> : i \in FlagPositions(c, flag)}

----------------------------------------------------------------------------
\* The file system: the temporary directory and the files in it.

\* tempfile.gettempdir(): fixed for the life of the server process.  The second
\* directory is named "r.csv".
DefaultTempDir == <<"/", "t">>
TempDirs == {DefaultTempDir, <<"/", "r", ".", "c", "s", "v">>}

NameSymbols == <<"a", "b", "g", "h", "k", "m">>
\* The random part of a temporary name; its characters are letters, digits and
\* underscores, never a dot.
Names == {NameSymbols[i] : i \in 1..NumNames}

\* dir + "/" + prefix + random name + suffix, with suffix=".csv".
TempPath(dir, name) == dir \o <<"/", "tmp", name>> \o DotCsv

RequiredFields(k) ==
    IF k = "univariate" THEN {"transcriptome_wide_impact", "Me", "mean"}
    ELSE {"TI_correlation", "cor_raw", "loglik"}

\* File contents.  A table has a header (cols) and nrows data rows; every cell of
\* a table holds the same value, cell.
EmptyFile == [shape |-> "empty", cols |-> {}, nrows |-> 0, cell |-> PyNone]
GarbledFile == [shape |-> "garbled", cols |-> {}, nrows |-> 0, cell |-> PyNone]
RdsFile == [shape |-> "rds", cols |-> {}, nrows |-> 0, cell |-> PyNone]
\* What a read finds at a path that holds no file, and what a handler that has
\* not read yet has seen.
MissingFile == [shape |-> "missing", cols |-> {}, nrows |-> 0, cell |-> PyNone]
Unread == [shape |-> "unread", cols |-> {}, nrows |-> 0, cell |-> PyNone]
Table(cols, nrows, cell) == [shape |-> "table", cols |-> cols, nrows |-> nrows, cell |-> cell]

\* What pandas infers for a column: float64, int64, or object (text).
Cells == {PyFloat(4), PyInt(3), PyStr(<<"abc">>)}

\* What the external process may leave in its --output file when it exits with
\* status 0: nothing, unparsable text, a header alone, one row of each cell type,
\* two rows, or a row with one required column missing.  When it fails: nothing,
\* a partial write, or a whole table.
ProcessOutputs(k, status) ==
    IF status = 0
    THEN {EmptyFile, GarbledFile, Table(RequiredFields(k), 0, PyNone),
          Table(RequiredFields(k), 2, PyFloat(4))}
         \cup {Table(RequiredFields(k), 1, c) : c \in Cells}
         \cup {Table(RequiredFields(k) \ {f}, 1, PyFloat(4)) : f \in RequiredFields(k)}
    ELSE {EmptyFile, GarbledFile, Table(RequiredFields(k), 1, PyFloat(4))}

ExitStatuses == {0, 1}

NoPath == <<>>

\* The file at path p of file system f, after a write that creates or replaces it.
WriteFile(f, p, file) == [q \in DOMAIN f \cup {p} |-> IF q = p THEN file ELSE f[q]]

\* Faulty variant of Unlink: the file is left in place.
UnlinkNothing(f, p) == f

\* os.unlink.
Unlink(f, p) == [q \in DOMAIN f \ {p} |-> f[q]]

\* Faulty variant of FreeNames: a name is taken without O_EXCL.
FreeNamesNoExcl(f, dir) == Names

\* mkstemp opens with O_CREAT | O_EXCL and draws another name when one exists:
\* the names it can return are those with no file at their path.
FreeNames(f, dir) == {n \in Names : TempPath(dir, n) \notin DOMAIN f}

\* The sibling of a path: its final extension .csv replaced by .rds.
SiblingRds(p) ==
    IF Len(p) >= 4 /\ SubSeq(p, Len(p) - 3, Len(p)) = DotCsv
    THEN SubSeq(p, 1, Len(p) - 4) \o DotRds
    ELSE p

\* The external process: it writes its table to the path after --output (keeping
\* the file the handler created) and, when it succeeds, the companion artifact
\* beside it.
Rscript(f, r, out, data, status) ==
    LET file == IF out \in DOMAIN f
                THEN [f[out] EXCEPT !.writer = r, !.data = data]
                ELSE [creator |-> r, writer |-> r, data |-> data]
        f1 == WriteFile(f, out, file)
    IN IF status = 0
       THEN WriteFile(f1, SiblingRds(out), [creator |-> r, writer |-> r, data |-> RdsFile])
       ELSE f1

\* Faulty variant of CheckRaises: check=False.
CheckIgnored(status) == FALSE

\* subprocess.run(..., check=True) raises CalledProcessError on a non-zero status.
CheckRaises(status) == status # 0

\* Faulty variant of ReadError: an empty file reads as a table without rows.
ReadErrorLenient(data) ==
    CASE data.shape = "missing" -> "FileNotFoundError"
      [] data.shape = "garbled" -> "ParserError"
      [] OTHER -> ""

\* pd.read_csv: the exception it raises on what it finds ("" when it parses).
ReadError(data) ==
    CASE data.shape = "missing" -> "FileNotFoundError"
      [] data.shape = "empty" -> "EmptyDataError"
      [] data.shape = "garbled" -> "ParserError"
      [] OTHER -> ""

\* float(x) of a cell; text that is no number raises ValueError.
FloatRaises(v) == v.t = "str"
float(v) == IF v.t = "int" THEN PyFloat(10 * v.n) ELSE v

\* Faulty variant of KeyError: a lookup that tolerates a missing column.
KeyErrorNever(k, cols) == FALSE

\* result[field] raises KeyError when the row has no such column.
KeyError(k, cols) == ~(RequiredFields(k) \subseteq cols)

Message(k) ==
    IF k = "univariate" THEN PyStr(<<"TRADE univariate analysis completed">>)
    ELSE PyStr(<<"TRADE bivariate analysis completed">>)

Reference ==
    PyStr(<<"https://github.com/SONGDONGYUAN1994/TRADEtools/blob/main/vignettes/TRADEtools-intro.Rmd">>)

\* The dict the handler returns, built from the first row of the table.
ReturnValue(k, df, rds) ==
    [key \in (RequiredFields(k) \cap df.cols) \cup {"message", "reference", "result_rds"} |->
        CASE key = "message" -> Message(k)
          [] key = "reference" -> Reference
          [] key = "result_rds" -> PyStr(rds)
          [] OTHER -> float(df.cell)]

----------------------------------------------------------------------------
\* State.

VARIABLES
    tmpdir,      \* the temporary directory of the server process
    fs,          \* path -> file, for the files on disk
    pc,          \* each request's position in its handler
    kind,        \* which handler the request runs
    args,        \* the handler's parameters
    output_csv,  \* the handler's local output_csv
    cmd,         \* the handler's local cmd
    returncode,  \* exit status of the request's external process (-1: none yet)
    result_df,   \* the handler's local result_df
    result_rds,  \* the handler's local result_rds
    failure,     \* the exception that ended the call ("" when none)
    ret,         \* the dict returned to the caller (<<>> when none)
    unlinked,    \* history: the paths the handler has deleted
    fresh,       \* history: no file was at output_csv when it was allocated
    seen         \* history: what pd.read_csv found at output_csv

locals == <<kind, args, output_csv, cmd, returncode, result_df, result_rds>>
history == <<unlinked, fresh, seen>>
vars == <<tmpdir, fs, pc, locals, failure, ret, history>>

InitIn(dirs) ==
    /\ tmpdir \in dirs
    /\ fs = <<>>
    /\ pc = [r \in Reqs |-> "idle"]
    /\ kind = [r \in Reqs |-> "none"]
    /\ args = [r \in Reqs |-> <<>>]
    /\ output_csv = [r \in Reqs |-> NoPath]
    /\ cmd = [r \in Reqs |-> <<>>]
    /\ returncode = [r \in Reqs |-> -1]
    /\ result_df = [r \in Reqs |-> EmptyFile]
    /\ result_rds = [r \in Reqs |-> NoPath]
    /\ failure = [r \in Reqs |-> ""]
    /\ ret = [r \in Reqs |-> <<>>]
    /\ unlinked = [r \in Reqs |-> {}]
    /\ fresh = [r \in Reqs |-> FALSE]
    /\ seen = [r \in Reqs |-> Unread]

\* The server in the default temporary directory.
Init == InitIn({DefaultTempDir})

\* The server in any temporary directory (TMPDIR).
InitArgv == InitIn(TempDirs)

\* An exception leaves the handler: the call fails and returns nothing.
Raise(r, exc) ==
    /\ pc' = [pc EXCEPT ![r] = "failed"]
    /\ failure' = [failure EXCEPT ![r] = exc]
    /\ ret' = ret

\* A caller invokes handler k with parameters a.  Requests are numbered in
\* their order of arrival.
CallWith(r, k, a) ==
    /\ pc[r] = "idle"
    /\ \A q \in Reqs : q < r => pc[q] # "idle"
    /\ kind' = [kind EXCEPT ![r] = k]
    /\ args' = [args EXCEPT ![r] = a]
    /\ pc' = [pc EXCEPT ![r] = "tempfile"]
    /\ UNCHANGED <<tmpdir, fs, output_csv, cmd, returncode, result_df, result_rds,
                   failure, ret, history>>

\* A caller invokes one of the two tools, leaving every optional parameter at
\* its default.
Call(r) == \E k \in Kinds : CallWith(r, k, DefaultArgs(k))

\* A caller invokes one of the two tools with any parameters.
CallAny(r) == \E k \in Kinds : \E a \in ArgSpace(k) : CallWith(r, k, a)

\* with tempfile.NamedTemporaryFile(suffix=".csv", delete=False) as f:
\*     output_csv = f.name
\* The file is created empty and stays on disk when the with block closes it.
NamedTemporaryFile(r) ==
    /\ pc[r] = "tempfile"
    /\ \E n \in FreeNames(fs, tmpdir) :
          LET p == TempPath(tmpdir, n) IN
          /\ fs' = WriteFile(fs, p, [creator |-> r, writer |-> r, data |-> EmptyFile])
          /\ output_csv' = [output_csv EXCEPT ![r] = p]
          /\ fresh' = [fresh EXCEPT ![r] = p \notin DOMAIN fs]
    /\ pc' = [pc EXCEPT ![r] = "cmd"]
    /\ UNCHANGED <<tmpdir, kind, args, cmd, returncode, result_df, result_rds,
                   failure, ret, unlinked, seen>>

\* cmd = [...] and the `if` statements that extend it.
BuildCmd(r) ==
    /\ pc[r] = "cmd"
    /\ cmd' = [cmd EXCEPT ![r] =
                  IF kind[r] = "univariate" THEN UnivariateCmd(args[r], output_csv[r])
                  ELSE BivariateCmd(args[r], output_csv[r])]
    /\ pc' = [pc EXCEPT ![r] = "run"]
    /\ UNCHANGED <<tmpdir, fs, kind, args, output_csv, returncode, result_df,
                   result_rds, failure, ret, history>>

\* subprocess.run(cmd, ...) starts the external process and blocks on it.
Invoke(r) ==
    /\ pc[r] = "run"
    /\ pc' = [pc EXCEPT ![r] = "running"]
    /\ UNCHANGED <<tmpdir, fs, locals, failure, ret, history>>

\* The external process writes its files and exits; subprocess.run returns, or
\* raises under check=True.
ProcessExit(r) ==
    /\ pc[r] = "running"
    /\ \E status \in ExitStatuses : \E data \in ProcessOutputs(kind[r], status) :
          LET out == CHOOSE v \in ValuesAfter(cmd[r], <<"--output">>) : TRUE IN
          /\ fs' = Rscript(fs, r, out, data, status)
          /\ returncode' = [returncode EXCEPT ![r] = status]
          /\ IF CheckRaises(status)
             THEN Raise(r, "CalledProcessError")
             ELSE /\ pc' = [pc EXCEPT ![r] = "read"]
                  /\ UNCHANGED <<failure, ret>>
    /\ UNCHANGED <<tmpdir, kind, args, output_csv, cmd, result_df, result_rds,
                   unlinked, fresh, seen>>

\* result_df = pd.read_csv(output_csv)
read_csv(r) ==
    /\ pc[r] = "read"
    /\ LET found == IF output_csv[r] \in DOMAIN fs THEN fs[output_csv[r]].data
                    ELSE MissingFile
       IN /\ seen' = [seen EXCEPT ![r] = found]
          /\ IF ReadError(found) # ""
             THEN Raise(r, ReadError(found)) /\ UNCHANGED result_df
             ELSE /\ result_df' = [result_df EXCEPT ![r] = found]
                  /\ pc' = [pc EXCEPT ![r] = "unlink"]
                  /\ UNCHANGED <<failure, ret>>
    /\ UNCHANGED <<tmpdir, fs, kind, args, output_csv, cmd, returncode, result_rds,
                   unlinked, fresh>>

\* result_rds = output_csv.replace(".csv", ".rds")
\* Path(output_csv).unlink()
unlink(r) ==
    /\ pc[r] = "unlink"
    /\ result_rds' = [result_rds EXCEPT ![r] = replace(output_csv[r], DotCsv, DotRds)]
    /\ IF output_csv[r] \notin DOMAIN fs
       THEN Raise(r, "FileNotFoundError") /\ UNCHANGED <<fs, unlinked>>
       ELSE /\ fs' = Unlink(fs, output_csv[r])
            /\ unlinked' = [unlinked EXCEPT ![r] = @ \cup {output_csv[r]}]
            /\ pc' = [pc EXCEPT ![r] = "result"]
            /\ UNCHANGED <<failure, ret>>
    /\ UNCHANGED <<tmpdir, kind, args, output_csv, cmd, returncode, result_df,
                   fresh, seen>>

\* result = result_df.to_dict(orient="records")[0]
\* return {...}
Return(r) ==
    /\ pc[r] = "result"
    /\ CASE result_df[r].nrows = 0 -> Raise(r, "IndexError")
         [] result_df[r].nrows # 0 /\ KeyError(kind[r], result_df[r].cols) ->
                Raise(r, "KeyError")
         [] result_df[r].nrows # 0 /\ ~KeyError(kind[r], result_df[r].cols)
              /\ FloatRaises(result_df[r].cell) -> Raise(r, "ValueError")
         [] OTHER -> /\ ret' = [ret EXCEPT ![r] =
                                   ReturnValue(kind[r], result_df[r], result_rds[r])]
                     /\ pc' = [pc EXCEPT ![r] = "returned"]
                     /\ UNCHANGED failure
    /\ UNCHANGED <<tmpdir, fs, locals, history>>

\* Something outside the server (a temporary-directory cleaner, an operator)
\* removes a temporary file a handler allocated.  (Removing any other file
\* changes nothing a handler reads.)
HostRemoves ==
    /\ \E p \in DOMAIN fs \cap {output_csv[r] : r \in Reqs} :
          fs' = [q \in DOMAIN fs \ {p} |-> fs[q]]
    /\ UNCHANGED <<tmpdir, pc, locals, failure, ret, history>>

Steps(r) ==
    \/ NamedTemporaryFile(r)
    \/ BuildCmd(r)
    \/ Invoke(r)
    \/ ProcessExit(r)
    \/ read_csv(r)
    \/ unlink(r)
    \/ Return(r)

\* Concurrent requests.
Next == \E r \in Reqs : Call(r) \/ Steps(r)

Spec == Init /\ [][Next]_vars

NextHost == Next \/ HostRemoves

SpecHost == Init /\ [][NextHost]_vars

\* One request, over every combination of parameters.
NextArgv == CallAny(1) \/ Steps(1)

SpecArgv == InitArgv /\ [][NextArgv]_vars

----------------------------------------------------------------------------
\* Vocabulary of the properties.

Returned(r) == pc[r] = "returned"
Failed(r) == pc[r] = "failed"
NoRecord(r) == DOMAIN ret[r] = {}

\* The file request r allocated is still on disk, at the path it was allocated.
OwnFileOnDisk(r) ==
    /\ output_csv[r] \in DOMAIN fs
    /\ fs[output_csv[r]].creator = r

\* Request r has allocated its temporary path and has not deleted it.
Holding(r) == output_csv[r] # NoPath /\ output_csv[r] \notin unlinked[r]

CmdBuilt(r) == Len(cmd[r]) > 0

RecordKeys(k) == RequiredFields(k) \cup {"message", "reference", "result_rds"}

\* The output the handler read cannot yield a complete record.
BadOutput(r) ==
    \/ seen[r].shape \in {"missing", "empty", "garbled"}
    \/ seen[r].nrows = 0
    \/ ~(RequiredFields(kind[r]) \subseteq seen[r].cols)

----------------------------------------------------------------------------
\* C1: whenever the external process of a call exits with a non-zero status,
\* the call has failed with CalledProcessError, the handler has not read the
\* output file, and nothing was returned to the caller.
C1_NonZeroExitFails ==
    \A r \in Reqs :
        returncode[r] > 0 =>
            /\ Failed(r)
            /\ failure[r] = "CalledProcessError"
            /\ seen[r] = Unread
            /\ NoRecord(r)

C1_Witness == \E r \in Reqs : returncode[r] = 1 /\ Failed(r)

\* C2 (as claimed): the univariate argument list holds --annot_table exactly
\* when annot_table_csv is not None and --genes_exclude exactly when
\* genes_exclude is not None, and no optional flag is followed by an empty value.
C2_FlagsIffSupplied ==
    \A r \in Reqs :
        (kind[r] = "univariate" /\ CmdBuilt(r)) =>
            /\ HasFlag(cmd[r], <<"--annot_table">>) <=> args[r].annot_table_csv.t # "NoneType"
            /\ HasFlag(cmd[r], <<"--genes_exclude">>) <=> args[r].genes_exclude.t # "NoneType"
            /\ <<>> \notin ValuesAfter(cmd[r], <<"--annot_table">>)
            /\ <<>> \notin ValuesAfter(cmd[r], <<"--genes_exclude">>)

\* C2 (amended): the univariate argument list holds --annot_table exactly when
\* annot_table_csv is a non-empty string and --genes_exclude exactly when
\* genes_exclude is a non-empty string (None and "" both leave the flag out); a
\* flag that is present occurs once and is followed by the supplied value, never
\* by an empty one.
C2_FlagsIffNonEmpty ==
    \A r \in Reqs :
        (kind[r] = "univariate" /\ CmdBuilt(r)) =>
            LET annot == args[r].annot_table_csv
                genes == args[r].genes_exclude
                supplied(v) == v.t = "str" /\ Len(v.s) > 0
            IN /\ HasFlag(cmd[r], <<"--annot_table">>) <=> supplied(annot)
               /\ HasFlag(cmd[r], <<"--genes_exclude">>) <=> supplied(genes)
               /\ supplied(annot) => ValuesAfter(cmd[r], <<"--annot_table">>) = {annot.s}
               /\ supplied(genes) => ValuesAfter(cmd[r], <<"--genes_exclude">>) = {genes.s}
               /\ Cardinality(FlagPositions(cmd[r], <<"--annot_table">>)) <= 1
               /\ Cardinality(FlagPositions(cmd[r], <<"--genes_exclude">>)) <= 1
               /\ <<>> \notin ValuesAfter(cmd[r], <<"--annot_table">>)
               /\ <<>> \notin ValuesAfter(cmd[r], <<"--genes_exclude">>)

\* A univariate call that supplies annot_table_csv as "" and a non-empty
\* genes_exclude has built its argument list.
C2_Witness ==
    \E r \in Reqs :
        /\ kind[r] = "univariate"
        /\ CmdBuilt(r)
        /\ args[r].annot_table_csv = PyStr(<<>>)
        /\ HasFlag(cmd[r], <<"--genes_exclude">>)

\* C3: once a call has returned a record, the file it allocated is no longer on
\* disk, the one path the handler deleted is its output_csv, and it has not
\* deleted the result_rds path it returns.
C3_TempCsvGone ==
    \A r \in Reqs :
        Returned(r) =>
            /\ ~OwnFileOnDisk(r)
            /\ unlinked[r] = {output_csv[r]}
            /\ ret[r]["result_rds"].s \notin unlinked[r]

C3_Witness == \E r \in Reqs : Returned(r) /\ output_csv[r] \notin DOMAIN fs

\* C4 (as claimed): when the argument list is complete and the external process
\* is invoked, no file exists at the path placed after --output.
C4_NoFileAtInvoke ==
    \A r \in Reqs :
        pc[r] \in {"run", "running"} => output_csv[r] \notin DOMAIN fs

\* C4 (amended): the path placed after --output is freshly allocated: no file
\* was at it before the allocation; the allocation itself creates an empty file
\* there, and that empty file, created by this call, is on disk when the
\* argument list is complete and the external process is invoked.
C4_FreshAndReserved ==
    \A r \in Reqs :
        /\ pc[r] \in {"cmd", "run", "running"} =>
              /\ fresh[r]
              /\ OwnFileOnDisk(r)
              /\ fs[output_csv[r]].data = EmptyFile
        /\ pc[r] \in {"run", "running"} =>
              ValuesAfter(cmd[r], <<"--output">>) = {output_csv[r]}

C4_Witness == \E r \in Reqs : pc[r] = "running" /\ fresh[r] /\ OwnFileOnDisk(r)

\* C5: the result_rds of a call is its output_csv with only the final
\* extension changed from .csv to .rds, whatever the temporary directory.
C5_RdsIsSibling ==
    \A r \in Reqs :
        result_rds[r] # NoPath => result_rds[r] = SiblingRds(output_csv[r])

\* The temporary path that a step of request r allocates, writes (through its
\* external process), reads or deletes; NoPath for a step that touches none.
Touches(r) ==
    CASE pc[r] = "tempfile" /\ pc'[r] # pc[r] -> output_csv'[r]
      [] pc[r] = "running" /\ pc'[r] # pc[r] ->
            CHOOSE v \in ValuesAfter(cmd[r], <<"--output">>) : TRUE
      [] pc[r] \in {"read", "unlink"} /\ pc'[r] # pc[r] -> output_csv[r]
      [] OTHER -> NoPath

\* C6: two requests never hold the same temporary path at the same time, and
\* no step of a request allocates, writes, reads or deletes a path that another
\* request holds.
C6_NoSharedTempPath ==
    /\ [](\A r, q \in Reqs :
            (r # q /\ Holding(r) /\ Holding(q)) => output_csv[r] # output_csv[q])
    /\ [][\A r, q \in Reqs :
            (r # q /\ Holding(q)) => Touches(r) # output_csv[q]]_vars

\* Two requests are inside their external processes at once.
C6_Witness ==
    \E r, q \in Reqs :
        r # q /\ pc[r] = "running" /\ pc[q] = "running" /\ Holding(r) /\ Holding(q)

\* C7: a call whose process exited with status 0 and whose output file was
\* missing, empty, unparsable, without data rows or without a required field has
\* failed and returned nothing; a returned record has exactly the three required
\* fields, as floats, plus message, reference and result_rds; no call that has
\* not returned has produced a record.
C7_NoPartialSuccess ==
    \A r \in Reqs :
        /\ (pc[r] \in {"returned", "failed"} /\ seen[r] # Unread /\ BadOutput(r)) =>
              Failed(r) /\ NoRecord(r)
        /\ ~Returned(r) => NoRecord(r)
        /\ Returned(r) =>
              /\ ~BadOutput(r)
              /\ returncode[r] = 0
              /\ DOMAIN ret[r] = RecordKeys(kind[r])
              /\ \A f \in RequiredFields(kind[r]) : ret[r][f].t = "float"

\* One call has failed on a missing output file while another has returned.
C7_Witness ==
    \E r, q \in Reqs :
        /\ Failed(r) /\ returncode[r] = 0 /\ seen[r] = MissingFile
        /\ Returned(q)

\* C8: the value after --model_significant (univariate) and after
\* --estimate_sampling_covariance (bivariate) is exactly TRUE or exactly FALSE.
C8_BoolTokens ==
    \A r \in Reqs :
        CmdBuilt(r) =>
            /\ HasFlag(cmd[r], BoolFlag(kind[r]))
            /\ ValuesAfter(cmd[r], BoolFlag(kind[r])) \subseteq {TRUE_token, FALSE_token}

\* C9: the handler deletes its temporary file only after reading it succeeded.
\* A call that failed on a non-zero exit or in pd.read_csv (empty or unparsable
\* file) has deleted nothing and its file is still on disk; a call that failed
\* later (no data rows, a missing field, a cell that is no number) has deleted
\* its file.
C9_DeleteOnlyAfterRead ==
    \A r \in Reqs :
        /\ unlinked[r] # {} => seen[r].shape = "table"
        /\ (Failed(r) /\ failure[r] \in {"CalledProcessError", "EmptyDataError", "ParserError"}) =>
              unlinked[r] = {} /\ OwnFileOnDisk(r)
        /\ (Failed(r) /\ failure[r] \in {"IndexError", "KeyError", "ValueError"}) =>
              unlinked[r] = {output_csv[r]} /\ ~OwnFileOnDisk(r)

\* One call has failed reading an empty file and another on a table without rows.
C9_Witness ==
    \E r, q \in Reqs :
        /\ Failed(r) /\ failure[r] = "EmptyDataError" /\ OwnFileOnDisk(r)
        /\ Failed(q) /\ failure[q] = "IndexError"

\* C10: the result_rds handles returned by two different calls are distinct.
C10_DistinctHandles ==
    \A r, q \in Reqs :
        (r # q /\ Returned(r) /\ Returned(q)) =>
            ret[r]["result_rds"] # ret[q]["result_rds"]

====
